---- MODULE Spec2Model ----
(***************************************************************************)
(* Model of logextractor.py: the scan of a runner worker log for embedded  *)
(* JSON fragments (process_line, extract_checkout_actions), the parse of a  *)
(* fragment (parse_json), and the correlation of checkout actions with the  *)
(* job's step definitions (process_actions, process_single_action,          *)
(* track_action), as run by main().                                         *)
(*                                                                         *)
(* A Python str is a sequence of one-character strings.  A parsed JSON     *)
(* value is a record [t, s, n, items] of one shape for every JSON type, so  *)
(* that any two values can be compared.                                     *)
(***************************************************************************)
EXTENDS Integers, Sequences, FiniteSets, TLC

(***************************************************************************)
(* Constants (class Constants, lines 11-20).  The two regular expressions  *)
(* are  \[.*? <literal>  (followed by .* for the job message): a '[', any   *)
(* characters but a newline, then the literal.                              *)
(***************************************************************************)
\* '"AccessToken"'
ACCESS_TOKEN_PATTERN ==
  <<"\"", "A", "c", "c", "e", "s", "s", "T", "o", "k", "e", "n", "\"">>

\* ' INFO ExecutionContext] Publish step telemetry for current step {'
ACTION_MESSAGE_LITERAL ==
  <<" ", "I", "N", "F", "O", " ", "E", "x", "e", "c", "u", "t", "i", "o", "n", "C", "o",
    "n", "t", "e", "x", "t", "]", " ", "P", "u", "b", "l", "i", "s", "h", " ", "s", "t",
    "e", "p", " ", "t", "e", "l", "e", "m", "e", "t", "r", "y", " ", "f", "o", "r", " ",
    "c", "u", "r", "r", "e", "n", "t", " ", "s", "t", "e", "p", " ", "{">>

\* ' INFO Worker] Job message:'
JOB_MESSAGE_LITERAL ==
  <<" ", "I", "N", "F", "O", " ", "W", "o", "r", "k", "e", "r", "]", " ", "J", "o", "b",
    " ", "m", "e", "s", "s", "a", "g", "e", ":">>

(***************************************************************************)
(* Python str operations used by the scan.                                  *)
(***************************************************************************)
\* The characters str.strip() removes.
Whitespace == {" ", "\t", "\n", "\r", "\f"}

RECURSIVE lstrip(_)
lstrip(s) ==
  IF s # <<>> /\ Head(s) \in Whitespace THEN lstrip(Tail(s)) ELSE s

RECURSIVE rstrip(_)
rstrip(s) ==
  IF s # <<>> /\ s[Len(s)] \in Whitespace THEN rstrip(SubSeq(s, 1, Len(s) - 1)) ELSE s

\* line.strip()
strip(s) == rstrip(lstrip(s))

\* s.startswith(p)
startswith(s, p) == Len(s) >= Len(p) /\ SubSeq(s, 1, Len(p)) = p

\* s.endswith(p)
endswith(s, p) == Len(s) >= Len(p) /\ SubSeq(s, Len(s) - Len(p) + 1, Len(s)) = p

\* lit occurs in s at position j
OccursAt(s, lit, j) ==
  /\ j >= 1 /\ j + Len(lit) - 1 <= Len(s)
  /\ \A x \in 1..Len(lit) : s[j + x - 1] = lit[x]

\* re.compile(r'\[.*?' + lit + ...).search(line): a '[' at some i, the literal at
\* some j > i, and no newline strictly between ('.' does not match a newline).
pattern_search(line, lit) ==
  \E i \in 1..Len(line) :
    /\ line[i] = "["
    /\ \E j \in (i + 1)..Len(line) :
         /\ OccursAt(line, lit, j)
         /\ \A k \in (i + 1)..(j - 1) : line[k] # "\n"

(***************************************************************************)
(* Parsed JSON values (what json.loads returns).  Python's None is JNone:  *)
(* it is what parse_json returns for text that is not JSON, and also what   *)
(* the JSON text null parses to.  A dict keeps its keys in insertion order; *)
(* a repeated key keeps its place and takes the last value.  A list is kept *)
(* in items with empty keys.                                                *)
(***************************************************************************)
JNone == [t |-> "none", s |-> <<>>, n |-> 0, items |-> <<>>]
JStr(x) == [t |-> "str", s |-> x, n |-> 0, items |-> <<>>]
JInt(k) == [t |-> "int", s |-> <<>>, n |-> k, items |-> <<>>]
JFloat(lexeme) == [t |-> "float", s |-> lexeme, n |-> 0, items |-> <<>>]
JBool(b) == [t |-> "bool", s |-> <<>>, n |-> IF b THEN 1 ELSE 0, items |-> <<>>]
JArr(its) == [t |-> "list", s |-> <<>>, n |-> 0, items |-> its]
JObj(its) == [t |-> "dict", s |-> <<>>, n |-> 0, items |-> its]

\* One entry of a dict (key k) or of a list (k empty).
Item(k, v) == [k |-> k, v |-> v]

\* [v1, v2, ...] as a list value
JList(vals) == JArr([x \in 1..Len(vals) |-> Item(<<>>, vals[x])])

\* The values of a list value, in order
Elements(v) == [x \in 1..Len(v.items) |-> v.items[x].v]

IsDict(v) == v.t = "dict"
IsList(v) == v.t = "list"

\* key in d
HasKey(d, key) == \E x \in 1..Len(d.items) : d.items[x].k = key

\* d[key], for a key that is in d
Lookup(d, key) ==
  d.items[CHOOSE x \in 1..Len(d.items) : d.items[x].k = key].v

\* d.get(key): None when the key is absent
DictGet(d, key) == IF HasKey(d, key) THEN Lookup(d, key) ELSE JNone

\* d[key] = v on the items of a dict
DictPut(its, key, v) ==
  IF \E x \in 1..Len(its) : its[x].k = key
    THEN [x \in 1..Len(its) |-> IF its[x].k = key THEN Item(key, v) ELSE its[x]]
    ELSE Append(its, Item(key, v))

Digits == {"0", "1", "2", "3", "4", "5", "6", "7", "8", "9"}

DigitVal(c) ==
  CASE c = "0" -> 0 [] c = "1" -> 1 [] c = "2" -> 2 [] c = "3" -> 3 [] c = "4" -> 4
    [] c = "5" -> 5 [] c = "6" -> 6 [] c = "7" -> 7 [] c = "8" -> 8 [] c = "9" -> 9

\* bool(v): the test of "if data:" and of "if key_lit and value_lit"
IsTruthy(v) ==
  CASE v.t = "none" -> FALSE
    [] v.t = "bool" -> v.n = 1
    [] v.t = "int" -> v.n # 0
    [] v.t = "float" ->
         \E x \in 1..Len(v.s) :
           /\ v.s[x] \in Digits \ {"0"}
           /\ \A y \in 1..x : v.s[y] \notin {"e", "E"}
    [] v.t = "str" -> v.s # <<>>
    [] OTHER -> v.items # <<>>
(***************************************************************************)
(* json.loads, as parse_json calls it (lines 295-300): objects, arrays,    *)
(* strings, numbers, true, false and null, with JSON's whitespace between   *)
(* tokens.  Strings are read without escape sequences: a backslash or a     *)
(* control character inside a string ends the parse as invalid (no line of  *)
(* the model holds a backslash).                                            *)
(***************************************************************************)
JsonWhitespace == {" ", "\t", "\n", "\r"}

ParseFail == [ok |-> FALSE, pos |-> 0, val |-> JNone]
ParseOk(p, v) == [ok |-> TRUE, pos |-> p, val |-> v]

RECURSIVE SkipWs(_, _)
SkipWs(s, p) ==
  IF p <= Len(s) /\ s[p] \in JsonWhitespace THEN SkipWs(s, p + 1) ELSE p

\* The position of the quote closing a string whose text starts at p; 0 if none.
RECURSIVE StringEnd(_, _)
StringEnd(s, p) ==
  IF p > Len(s) THEN 0
  ELSE IF s[p] = "\"" THEN p
  ELSE IF s[p] \in {"\\", "\n", "\t", "\r", "\f"} THEN 0
  ELSE StringEnd(s, p + 1)

\* s[p] is the opening quote
ParseString(s, p) ==
  LET q == StringEnd(s, p + 1)
  IN  IF q = 0 THEN ParseFail ELSE ParseOk(q + 1, JStr(SubSeq(s, p + 1, q - 1)))

\* The first position at or after p that holds no digit
RECURSIVE DigitsEnd(_, _)
DigitsEnd(s, p) ==
  IF p <= Len(s) /\ s[p] \in Digits THEN DigitsEnd(s, p + 1) ELSE p

\* The number written by the digits s[a..b]
RECURSIVE IntVal(_, _, _)
IntVal(s, a, b) ==
  IF b < a THEN 0 ELSE 10 * IntVal(s, a, b - 1) + DigitVal(s[b])

\* (0|[1-9]\d*) at a digit s[a]: the position after it
IntEnd(s, a) == IF s[a] = "0" THEN a + 1 ELSE DigitsEnd(s, a)

\* (\.\d+)? at b: the position after it
FracEnd(s, b) ==
  IF b <= Len(s) /\ s[b] = "." /\ DigitsEnd(s, b + 1) > b + 1
    THEN DigitsEnd(s, b + 1) ELSE b

\* The place of the digits of an exponent whose letter is at c
ExpDigits(s, c) == IF c + 1 <= Len(s) /\ s[c + 1] \in {"+", "-"} THEN c + 2 ELSE c + 1

\* ([eE][-+]?\d+)? at c: the position after it
ExpEnd(s, c) ==
  IF c <= Len(s) /\ s[c] \in {"e", "E"} /\ DigitsEnd(s, ExpDigits(s, c)) > ExpDigits(s, c)
    THEN DigitsEnd(s, ExpDigits(s, c)) ELSE c

\* -?(0|[1-9]\d*)(\.\d+)?([eE][-+]?\d+)? at p: the longest match
ParseNumber(s, p) ==
  LET Number(a, b, d) ==
        IF d = b
          THEN ParseOk(b, JInt(IF a > p THEN 0 - IntVal(s, a, b - 1)
                                        ELSE IntVal(s, a, b - 1)))
          ELSE ParseOk(d, JFloat(SubSeq(s, p, d - 1)))
      Integer(a, b) == Number(a, b, ExpEnd(s, FracEnd(s, b)))
      Sign(a) ==
        IF a > Len(s) \/ s[a] \notin Digits THEN ParseFail ELSE Integer(a, IntEnd(s, a))
  IN  Sign(IF s[p] = "-" THEN p + 1 ELSE p)

RECURSIVE ParseValue(_, _)
RECURSIVE ParseMembers(_, _, _)
RECURSIVE ParseElements(_, _, _)

\* The members of an object after '{' or ',': p is at the key's opening quote
ParseMembers(s, p, acc) ==
  LET Close(e, acc2) ==
        IF e > Len(s) THEN ParseFail
        ELSE IF s[e] = "}" THEN ParseOk(e + 1, JObj(acc2))
        ELSE IF s[e] = "," THEN ParseMembers(s, SkipWs(s, e + 1), acc2)
        ELSE ParseFail
      Value(key, v) ==
        IF ~v.ok THEN ParseFail
        ELSE Close(SkipWs(s, v.pos), DictPut(acc, key.val.s, v.val))
      Colon(key, c) ==
        IF c > Len(s) \/ s[c] # ":" THEN ParseFail
        ELSE Value(key, ParseValue(s, c + 1))
      Key(key) == IF ~key.ok THEN ParseFail ELSE Colon(key, SkipWs(s, key.pos))
  IN  IF p > Len(s) \/ s[p] # "\"" THEN ParseFail ELSE Key(ParseString(s, p))

\* The elements of an array after '[' or ','
ParseElements(s, p, acc) ==
  LET Close(e, acc2) ==
        IF e > Len(s) THEN ParseFail
        ELSE IF s[e] = "]" THEN ParseOk(e + 1, JArr(acc2))
        ELSE IF s[e] = "," THEN ParseElements(s, e + 1, acc2)
        ELSE ParseFail
      Value(v) ==
        IF ~v.ok THEN ParseFail
        ELSE Close(SkipWs(s, v.pos), Append(acc, Item(<<>>, v.val)))
  IN  Value(ParseValue(s, p))

\* One JSON value at or after p0
ParseValue(s, p0) ==
  LET Object(q) ==
        IF q <= Len(s) /\ s[q] = "}" THEN ParseOk(q + 1, JObj(<<>>))
        ELSE ParseMembers(s, q, <<>>)
      Array(q) ==
        IF q <= Len(s) /\ s[q] = "]" THEN ParseOk(q + 1, JArr(<<>>))
        ELSE ParseElements(s, q, <<>>)
      Value(p) ==
        IF p > Len(s) THEN ParseFail
        ELSE IF s[p] = "{" THEN Object(SkipWs(s, p + 1))
        ELSE IF s[p] = "[" THEN Array(SkipWs(s, p + 1))
        ELSE IF s[p] = "\"" THEN ParseString(s, p)
        ELSE IF s[p] \in Digits \cup {"-"} THEN ParseNumber(s, p)
        ELSE IF OccursAt(s, <<"t", "r", "u", "e">>, p) THEN ParseOk(p + 4, JBool(TRUE))
        ELSE IF OccursAt(s, <<"f", "a", "l", "s", "e">>, p) THEN ParseOk(p + 5, JBool(FALSE))
        ELSE IF OccursAt(s, <<"n", "u", "l", "l">>, p) THEN ParseOk(p + 4, JNone)
        ELSE ParseFail
  IN  Value(SkipWs(s, p0))

\* json.loads(s): err where it raises JSONDecodeError (s is no JSON value, or
\* text follows the value), else the value
json_loads(s) ==
  LET Loads(r) ==
        IF ~r.ok \/ SkipWs(s, r.pos) <= Len(s)
          THEN [err |-> TRUE, val |-> JNone]
          ELSE [err |-> FALSE, val |-> r.val]
  IN  Loads(ParseValue(s, 1))

\* json.loads(s) raises JSONDecodeError
JSONDecodeError(s) == json_loads(s).err

\* parse_json (lines 295-300): the parsed value, or None when json.loads raises
parse_json(json_str) ==
  LET Result(r) == IF r.err THEN JNone ELSE r.val
  IN  Result(json_loads(json_str))

(***************************************************************************)
(* process_line (lines 83-126).  Branch names the arm of the if/elif chain *)
(* that a line takes; the arms after "elif not capturing" are reached only  *)
(* while capturing.                                                         *)
(***************************************************************************)
\* Branch with the action-message trigger taken in either state
Branch_MarkerInAnyState(line, capturing) ==
  IF pattern_search(line, JOB_MESSAGE_LITERAL) THEN "job"
  ELSE IF pattern_search(line, ACTION_MESSAGE_LITERAL) THEN "action"
  ELSE IF ~capturing THEN "idle"
  ELSE IF endswith(strip(line), <<"}", ".">>) THEN "terminator"
  ELSE IF startswith(strip(line), ACCESS_TOKEN_PATTERN) THEN "token"
  ELSE IF startswith(line, <<"[">>) THEN "bracket"
  ELSE "accumulate"

\* Branch without the access-token arm
Branch_NoTokenSkip(line, capturing) ==
  IF pattern_search(line, JOB_MESSAGE_LITERAL) THEN "job"
  ELSE IF ~capturing
    THEN IF pattern_search(line, ACTION_MESSAGE_LITERAL) THEN "action" ELSE "idle"
  ELSE IF endswith(strip(line), <<"}", ".">>) THEN "terminator"
  ELSE IF startswith(line, <<"[">>) THEN "bracket"
  ELSE "accumulate"

\* The arm with the access-token test ahead of the terminator test
Branch_TokenBeforeTerminator(line, capturing) ==
  IF pattern_search(line, JOB_MESSAGE_LITERAL) THEN "job"
  ELSE IF ~capturing
    THEN IF pattern_search(line, ACTION_MESSAGE_LITERAL) THEN "action" ELSE "idle"
  ELSE IF startswith(strip(line), ACCESS_TOKEN_PATTERN) THEN "token"
  ELSE IF endswith(strip(line), <<"}", ".">>) THEN "terminator"
  ELSE IF startswith(line, <<"[">>) THEN "bracket"
  ELSE "accumulate"

Branch(line, capturing) ==
  IF pattern_search(line, JOB_MESSAGE_LITERAL) THEN "job"
  ELSE IF ~capturing
    THEN IF pattern_search(line, ACTION_MESSAGE_LITERAL) THEN "action" ELSE "idle"
  ELSE IF endswith(strip(line), <<"}", ".">>) THEN "terminator"
  ELSE IF startswith(strip(line), ACCESS_TOKEN_PATTERN) THEN "token"
  ELSE IF startswith(line, <<"[">>) THEN "bracket"
  ELSE "accumulate"

\* The argument of parse_json with a '}' appended in both arms
ParseInput_AlwaysBrace(b, json_str) == json_str \o <<"}">>

\* The string the arm b hands to parse_json: the terminator arm appends a '}'
\* to the buffer, the '[' arm takes the buffer as it is
ParseInput(b, json_str) ==
  IF b = "terminator" THEN json_str \o <<"}">> ELSE json_str

\* process_line that keeps the capture and the buffer when the parse fails
process_line_NoResetOnFailure(line, capturing, json_str) ==
  LET b == Branch(line, capturing)
      input == ParseInput(b, json_str)
  IN  CASE b = "job" ->
             [capturing |-> TRUE, json_str |-> json_str, data |-> JNone]
        [] b = "action" ->
             [capturing |-> TRUE, json_str |-> <<"{">>, data |-> JNone]
        [] b \in {"terminator", "bracket"} ->
             IF JSONDecodeError(input)
               THEN [capturing |-> capturing, json_str |-> json_str, data |-> JNone]
               ELSE [capturing |-> FALSE, json_str |-> <<>>, data |-> parse_json(input)]
        [] b = "accumulate" ->
             [capturing |-> capturing, json_str |-> json_str \o strip(line),
              data |-> JNone]
        [] OTHER ->
             [capturing |-> capturing, json_str |-> json_str, data |-> JNone]

\* process_line that appends the line as it is, not stripped
process_line_AccumulateRaw(line, capturing, json_str) ==
  LET b == Branch(line, capturing)
  IN  CASE b = "job" ->
             [capturing |-> TRUE, json_str |-> json_str, data |-> JNone]
        [] b = "action" ->
             [capturing |-> TRUE, json_str |-> <<"{">>, data |-> JNone]
        [] b \in {"terminator", "bracket"} ->
             [capturing |-> FALSE, json_str |-> <<>>,
              data |-> parse_json(ParseInput(b, json_str))]
        [] b = "accumulate" ->
             [capturing |-> capturing, json_str |-> json_str \o line, data |-> JNone]
        [] OTHER ->
             [capturing |-> capturing, json_str |-> json_str, data |-> JNone]

\* process_line that parses the buffer on every accumulated line
process_line_EagerParse(line, capturing, json_str) ==
  LET b == Branch(line, capturing)
  IN  CASE b = "job" ->
             [capturing |-> TRUE, json_str |-> json_str, data |-> JNone]
        [] b = "action" ->
             [capturing |-> TRUE, json_str |-> <<"{">>, data |-> JNone]
        [] b \in {"terminator", "bracket"} ->
             [capturing |-> FALSE, json_str |-> <<>>,
              data |-> parse_json(ParseInput(b, json_str))]
        [] b = "accumulate" ->
             [capturing |-> capturing, json_str |-> json_str \o strip(line),
              data |-> parse_json(json_str \o strip(line))]
        [] OTHER ->
             [capturing |-> capturing, json_str |-> json_str, data |-> JNone]

\* process_line whose job-message arm clears the buffer
process_line_JobClearsBuffer(line, capturing, json_str) ==
  LET b == Branch(line, capturing)
  IN  CASE b = "job" ->
             [capturing |-> TRUE, json_str |-> <<>>, data |-> JNone]
        [] b = "action" ->
             [capturing |-> TRUE, json_str |-> <<"{">>, data |-> JNone]
        [] b \in {"terminator", "bracket"} ->
             [capturing |-> FALSE, json_str |-> <<>>,
              data |-> parse_json(ParseInput(b, json_str))]
        [] b = "accumulate" ->
             [capturing |-> capturing, json_str |-> json_str \o strip(line),
              data |-> JNone]
        [] OTHER ->
             [capturing |-> capturing, json_str |-> json_str, data |-> JNone]

\* process_line whose closing arms return the buffer they parsed
process_line_KeepBufferOnClose(line, capturing, json_str) ==
  LET b == Branch(line, capturing)
  IN  CASE b = "job" ->
             [capturing |-> TRUE, json_str |-> json_str, data |-> JNone]
        [] b = "action" ->
             [capturing |-> TRUE, json_str |-> <<"{">>, data |-> JNone]
        [] b \in {"terminator", "bracket"} ->
             [capturing |-> FALSE, json_str |-> ParseInput(b, json_str),
              data |-> parse_json(ParseInput(b, json_str))]
        [] b = "accumulate" ->
             [capturing |-> capturing, json_str |-> json_str \o strip(line),
              data |-> JNone]
        [] OTHER ->
             [capturing |-> capturing, json_str |-> json_str, data |-> JNone]

\* The (capturing, json_str, data) that process_line returns
process_line(line, capturing, json_str) ==
  LET b == Branch(line, capturing)
  IN  CASE b = "job" ->
             [capturing |-> TRUE, json_str |-> json_str, data |-> JNone]
        [] b = "action" ->
             [capturing |-> TRUE, json_str |-> <<"{">>, data |-> JNone]
        [] b \in {"terminator", "bracket"} ->
             [capturing |-> FALSE, json_str |-> <<>>,
              data |-> parse_json(ParseInput(b, json_str))]
        [] b = "accumulate" ->
             [capturing |-> capturing, json_str |-> json_str \o strip(line),
              data |-> JNone]
        [] OTHER ->
             [capturing |-> capturing, json_str |-> json_str, data |-> JNone]
(***************************************************************************)
(* The dictionary keys and the string values the correlation looks for     *)
(* (lines 164, 176, 204-205, 256, 268, 280-292).                           *)
(***************************************************************************)
S_k == <<"k">>
S_v == <<"v">>
S_run_id == <<"r", "u", "n", "_", "i", "d">>
S_repository == <<"r", "e", "p", "o", "s", "i", "t", "o", "r", "y">>
S_action == <<"a", "c", "t", "i", "o", "n">>
S_actions_checkout == <<"a", "c", "t", "i", "o", "n", "s", "/", "c", "h", "e", "c", "k", "o", "u", "t">>
S_id == <<"i", "d">>
S_stepId == <<"s", "t", "e", "p", "I", "d">>
S_startTime == <<"s", "t", "a", "r", "t", "T", "i", "m", "e">>
S_finishTime == <<"f", "i", "n", "i", "s", "h", "T", "i", "m", "e">>
S_contextData == <<"c", "o", "n", "t", "e", "x", "t", "D", "a", "t", "a">>
S_github == <<"g", "i", "t", "h", "u", "b">>
S_d == <<"d">>
S_steps == <<"s", "t", "e", "p", "s">>
S_inputs == <<"i", "n", "p", "u", "t", "s">>
S_map == <<"m", "a", "p">>
S_key == <<"k", "e", "y">>
S_value == <<"v", "a", "l", "u", "e">>
S_lit == <<"l", "i", "t">>
S_name == <<"n", "a", "m", "e">>

(***************************************************************************)
(* Timestamps: truncate_microseconds (lines 49-61), datetime.strptime with *)
(* DATE_FORMAT '%Y-%m-%dT%H:%M:%S.%fZ' (line 16) and the duration property  *)
(* (lines 40-44).                                                           *)
(***************************************************************************)
Min(a, b) == IF a <= b THEN a ELSE b

\* date_str.index('.') + 1: the place of the first '.', for a string that has one
IndexOfDot(date_str) ==
  CHOOSE x \in 1..Len(date_str) :
    date_str[x] = "." /\ \A y \in 1..(x - 1) : date_str[y] # "."

\* A variant of truncate_microseconds that keeps five digits, not six
truncate_microseconds_FiveDigits(date_str) ==
  IF \E x \in 1..Len(date_str) : date_str[x] = "."
    THEN SubSeq(date_str, 1, Min(Len(date_str), IndexOfDot(date_str) + 5)) \o <<"Z">>
    ELSE date_str

\* date_str[:date_str.index('.') + 7] + 'Z' when date_str holds a '.'
truncate_microseconds(date_str) ==
  IF \E x \in 1..Len(date_str) : date_str[x] = "."
    THEN SubSeq(date_str, 1, Min(Len(date_str), IndexOfDot(date_str) + 6)) \o <<"Z">>
    ELSE date_str

IsLeap(y) == (y % 4 = 0 /\ y % 100 # 0) \/ y % 400 = 0

DaysInMonth(y, m) ==
  IF m = 2 THEN (IF IsLeap(y) THEN 29 ELSE 28)
  ELSE IF m \in {4, 6, 9, 11} THEN 30 ELSE 31

\* The number of days from 1970-01-01 to the date y-m-d (proleptic Gregorian)
DaysFromCivil(y, m, d) ==
  LET yy == IF m <= 2 THEN y - 1 ELSE y
      era == yy \div 400
      yoe == yy - era * 400
      mp == IF m > 2 THEN m - 3 ELSE m + 9
      doy == (153 * mp + 2) \div 5 + d - 1
      doe == yoe * 365 + yoe \div 4 - yoe \div 100 + doy
  IN  era * 146097 + doe - 719468

\* s[p] is the literal c of the format (strptime matches letters in either case)
LiteralAt(s, p, c) == p <= Len(s) /\ s[p] \in c

StrptimeFail == [ok |-> FALSE, days |-> 0, secs |-> 0, micros |-> 0]

\* datetime.strptime(s, DATE_FORMAT) for a str s: each directive takes the digits
\* up to the next literal, which must be one of the forms the directive accepts;
\* ok is FALSE where strptime raises ValueError.
strptime(s) ==
  LET e1 == DigitsEnd(s, 1)
      e2 == DigitsEnd(s, e1 + 1)
      e3 == DigitsEnd(s, e2 + 1)
      e4 == DigitsEnd(s, e3 + 1)
      e5 == DigitsEnd(s, e4 + 1)
      e6 == DigitsEnd(s, e5 + 1)
      e7 == DigitsEnd(s, e6 + 1)
      Y == IntVal(s, 1, e1 - 1)
      m == IntVal(s, e1 + 1, e2 - 1)
      d == IntVal(s, e2 + 1, e3 - 1)
      H == IntVal(s, e3 + 1, e4 - 1)
      M == IntVal(s, e4 + 1, e5 - 1)
      S == IntVal(s, e5 + 1, e6 - 1)
      flen == e7 - e6 - 1
      f == IntVal(s, e6 + 1, e7 - 1)
      scale == CASE flen = 1 -> 100000 [] flen = 2 -> 10000 [] flen = 3 -> 1000
                 [] flen = 4 -> 100 [] flen = 5 -> 10 [] OTHER -> 1
      shape ==
        /\ e1 = 5 /\ LiteralAt(s, e1, {"-"})
        /\ e2 - e1 - 1 \in {1, 2} /\ LiteralAt(s, e2, {"-"})
        /\ e3 - e2 - 1 \in {1, 2} /\ LiteralAt(s, e3, {"T", "t"})
        /\ e4 - e3 - 1 \in {1, 2} /\ LiteralAt(s, e4, {":"})
        /\ e5 - e4 - 1 \in {1, 2} /\ LiteralAt(s, e5, {":"})
        /\ e6 - e5 - 1 \in {1, 2} /\ LiteralAt(s, e6, {"."})
        /\ flen \in 1..6 /\ LiteralAt(s, e7, {"Z", "z"})
        /\ e7 = Len(s)
      range ==
        /\ Y >= 1
        /\ m \in 1..12
        /\ d \in 1..DaysInMonth(Y, m)
        /\ H \in 0..23 /\ M \in 0..59 /\ S \in 0..59
  IN  IF shape /\ range
        THEN [ok |-> TRUE, days |-> DaysFromCivil(Y, m, d),
              secs |-> H * 3600 + M * 60 + S, micros |-> f * scale]
        ELSE StrptimeFail

\* CheckoutStepDetails.duration: err is the exception raised, if any; else
\* (finish - start).total_seconds() is seconds + micros / 10^6, 0 <= micros < 10^6
duration(startTime, finishTime) ==
  LET start == strptime(truncate_microseconds(startTime.s))
      finish == strptime(truncate_microseconds(finishTime.s))
      us == finish.micros - start.micros
      sec == (finish.days - start.days) * 86400 + finish.secs - start.secs
  IN  IF startTime.t # "str" THEN [err |-> "TypeError", seconds |-> 0, micros |-> 0]
      ELSE IF ~start.ok THEN [err |-> "ValueError", seconds |-> 0, micros |-> 0]
      ELSE IF finishTime.t # "str" THEN [err |-> "TypeError", seconds |-> 0, micros |-> 0]
      ELSE IF ~finish.ok THEN [err |-> "ValueError", seconds |-> 0, micros |-> 0]
      ELSE IF us < 0 THEN [err |-> "none", seconds |-> sec - 1, micros |-> us + 1000000]
      ELSE [err |-> "none", seconds |-> sec, micros |-> us]

(***************************************************************************)
(* Python's subscript, iteration and filter on parsed values.  A result is *)
(* a record whose err names the exception raised ("none": no exception).    *)
(***************************************************************************)
\* v[key] for a string key: KeyError on a dict without it, TypeError on any
\* other value (a list, a str, a number, None)
Subscript(v, key) ==
  IF ~IsDict(v) THEN [err |-> "TypeError", val |-> JNone]
  ELSE IF ~HasKey(v, key) THEN [err |-> "KeyError", val |-> JNone]
  ELSE [err |-> "none", val |-> Lookup(v, key)]

\* The values "for x in v" yields: the elements of a list, the keys of a dict,
\* the characters of a str; TypeError on a value that is not iterable
Iterate(v) ==
  IF IsList(v) THEN [err |-> "none", seq |-> Elements(v)]
  ELSE IF IsDict(v)
    THEN [err |-> "none", seq |-> [x \in 1..Len(v.items) |-> JStr(v.items[x].k)]]
  ELSE IF v.t = "str"
    THEN [err |-> "none", seq |-> [x \in 1..Len(v.s) |-> JStr(<<v.s[x]>>)]]
  ELSE [err |-> "TypeError", seq |-> <<>>]

\* list(filter(lambda x: x.get(key) == want, v)): AttributeError when an element
\* has no get (is not a dict)
FilterGet(v, key, want) ==
  LET Filter(it) ==
        IF it.err # "none" THEN it
        ELSE IF \E x \in 1..Len(it.seq) : ~IsDict(it.seq[x])
          THEN [err |-> "AttributeError", seq |-> <<>>]
        ELSE [err |-> "none", seq |-> SelectSeq(it.seq, LAMBDA x : DictGet(x, key) = want)]
  IN  Filter(Iterate(v))

\* The first error of a sequence of error names, "none" if it has none
FirstError(errs) ==
  IF \A x \in 1..Len(errs) : errs[x] = "none" THEN "none"
  ELSE errs[CHOOSE x \in 1..Len(errs) :
              errs[x] # "none" /\ \A y \in 1..(x - 1) : errs[y] = "none"]

\* is_jobId (lines 154-164), for an item that is a dict
is_jobId(item) == DictGet(item, S_k) = JStr(S_run_id)

\* A variant of is_checkout_action that takes any item with an 'action'
is_checkout_action_AnyAction(item) == HasKey(item, S_action)

\* is_checkout_action (lines 166-176), for an item that is a dict
is_checkout_action(item) == DictGet(item, S_action) = JStr(S_actions_checkout)

\* is_step (lines 178-189), for an item that is a dict
is_step(item, stepId) == DictGet(item, S_id) = stepId

\* A variant of ContextVariable that yields '' when no entry has the key
ContextVariable_Default(jobData, name) ==
  LET First(f) ==
        IF f.err # "none" THEN [err |-> f.err, val |-> JNone]
        ELSE IF f.seq = <<>> THEN [err |-> "none", val |-> JStr(<<>>)]
        ELSE Subscript(f.seq[1], S_v)
      D(c3) == IF c3.err # "none" THEN c3 ELSE First(FilterGet(c3.val, S_k, JStr(name)))
      Github(c2) == IF c2.err # "none" THEN c2 ELSE D(Subscript(c2.val, S_d))
      ContextData(c1) == IF c1.err # "none" THEN c1 ELSE Github(Subscript(c1.val, S_github))
  IN  ContextData(Subscript(jobData, S_contextData))

\* list(filter(<k is name>, jobData['contextData']['github']['d']))[0]['v']
ContextVariable(jobData, name) ==
  LET First(f) ==
        IF f.err # "none" THEN [err |-> f.err, val |-> JNone]
        ELSE IF f.seq = <<>> THEN [err |-> "IndexError", val |-> JNone]
        ELSE Subscript(f.seq[1], S_v)
      D(c3) == IF c3.err # "none" THEN c3 ELSE First(FilterGet(c3.val, S_k, JStr(name)))
      Github(c2) == IF c2.err # "none" THEN c2 ELSE D(Subscript(c2.val, S_d))
      ContextData(c1) == IF c1.err # "none" THEN c1 ELSE Github(Subscript(c1.val, S_github))
  IN  ContextData(Subscript(jobData, S_contextData))

\* extract_run_id (lines 246-256)
extract_run_id(jobData) == ContextVariable(jobData, S_run_id)

\* extract_main_repository (lines 258-268)
extract_main_repository(jobData) == ContextVariable(jobData, S_repository)

\* item['key'].get('lit') and item['value'].get('lit') of one entry of 'map':
\* the error raised on it, if any
LitItemError(item) ==
  LET key == Subscript(item, S_key)
      value == Subscript(item, S_value)
  IN  IF key.err # "none" THEN key.err
      ELSE IF ~IsDict(key.val) THEN "AttributeError"
      ELSE IF value.err # "none" THEN value.err
      ELSE IF ~IsDict(value.val) THEN "AttributeError"
      ELSE "none"

\* extract_lit_items (lines 191-208): the (key lit, value lit) pairs of data['map']
\* whose two lits are both truthy, in order; [] when data has no 'map'
extract_lit_items(data) ==
  LET it == Iterate(Lookup(data, S_map))
      errs == [x \in 1..Len(it.seq) |-> LitItemError(it.seq[x])]
      KeyLit(item) == DictGet(Lookup(item, S_key), S_lit)
      ValueLit(item) == DictGet(Lookup(item, S_value), S_lit)
      kept == SelectSeq(it.seq, LAMBDA item : IsTruthy(KeyLit(item)) /\ IsTruthy(ValueLit(item)))
  IN  IF ~HasKey(data, S_map) THEN [err |-> "none", seq |-> <<>>]
      ELSE IF it.err # "none" THEN it
      ELSE IF FirstError(errs) # "none" THEN [err |-> FirstError(errs), seq |-> <<>>]
      ELSE [err |-> "none", seq |-> [x \in 1..Len(kept) |-> <<KeyLit(kept[x]), ValueLit(kept[x])>>]]

\* x.get('key')['lit'] of one entry of 'map': the error raised on it, if any
RepoKeyError(x) ==
  IF ~IsDict(x) THEN "AttributeError" ELSE Subscript(DictGet(x, S_key), S_lit).err

NoDetail ==
  [id |-> JNone, startTime |-> JNone, finishTime |-> JNone, repository |-> JNone,
   parameters |-> <<>>]

Raise(e) == [err |-> e, detail |-> NoDetail]

\* The body of process_single_action with an 'inputs' (lines 283-285): the
\* repository and the parameters, or the exception raised
ResolveInputs(inputs) ==
  LET map == Subscript(inputs, S_map)
      it == Iterate(map.val)
      errs == [x \in 1..Len(it.seq) |-> RepoKeyError(it.seq[x])]
      repo_key == SelectSeq(it.seq,
                    LAMBDA x : Lookup(DictGet(x, S_key), S_lit) = JStr(S_repository))
      parameters == extract_lit_items(inputs)
      repo == Subscript(DictGet(repo_key[1], S_value), S_lit)
  IN  IF map.err # "none" THEN [err |-> map.err, repo |-> JNone, parameters |-> <<>>]
      ELSE IF it.err # "none" THEN [err |-> it.err, repo |-> JNone, parameters |-> <<>>]
      ELSE IF FirstError(errs) # "none"
        THEN [err |-> FirstError(errs), repo |-> JNone, parameters |-> <<>>]
      ELSE IF parameters.err # "none"
        THEN [err |-> parameters.err, repo |-> JNone, parameters |-> <<>>]
      ELSE IF repo_key = <<>>
        THEN [err |-> "IndexError", repo |-> JNone, parameters |-> <<>>]
      ELSE IF repo.err # "none"
        THEN [err |-> repo.err, repo |-> JNone, parameters |-> <<>>]
      ELSE [err |-> "none", repo |-> repo.val, parameters |-> parameters.seq]

\* process_single_action that takes main_repository when no step has the stepId
process_single_action_UnknownStepFallsBack(action, jobData, main_repository) ==
  LET stepId == Subscript(action, S_stepId)
      steps == Subscript(jobData, S_steps)
      t == FilterGet(steps.val, S_id, stepId.val)
      inputs == IF t.seq = <<>> THEN JNone ELSE DictGet(t.seq[1], S_inputs)
      resolved == IF inputs # JNone
                    THEN ResolveInputs(inputs)
                    ELSE [err |-> "none", repo |-> main_repository, parameters |-> <<>>]
      name == IF t.seq = <<>> THEN stepId ELSE Subscript(t.seq[1], S_name)
      startTime == Subscript(action, S_startTime)
      finishTime == Subscript(action, S_finishTime)
  IN  IF stepId.err # "none" THEN Raise(stepId.err)
      ELSE IF steps.err # "none" THEN Raise(steps.err)
      ELSE IF t.err # "none" THEN Raise(t.err)
      ELSE IF resolved.err # "none" THEN Raise(resolved.err)
      ELSE IF name.err # "none" THEN Raise(name.err)
      ELSE IF startTime.err # "none" THEN Raise(startTime.err)
      ELSE IF finishTime.err # "none" THEN Raise(finishTime.err)
      ELSE [err |-> "none",
            detail |-> [id |-> stepId.val, startTime |-> startTime.val,
                        finishTime |-> finishTime.val, repository |-> resolved.repo,
                        parameters |-> resolved.parameters]]

\* process_single_action up to the metric (lines 280-292), for an action that is
\* a dict: the CheckoutStepDetails built, or the exception raised
process_single_action(action, jobData, main_repository) ==
  LET stepId == Subscript(action, S_stepId)
      steps == Subscript(jobData, S_steps)
      t == FilterGet(steps.val, S_id, stepId.val)
      inputs == DictGet(t.seq[1], S_inputs)
      resolved == IF inputs # JNone
                    THEN ResolveInputs(inputs)
                    ELSE [err |-> "none", repo |-> main_repository, parameters |-> <<>>]
      name == Subscript(t.seq[1], S_name)
      startTime == Subscript(action, S_startTime)
      finishTime == Subscript(action, S_finishTime)
  IN  IF stepId.err # "none" THEN Raise(stepId.err)
      ELSE IF steps.err # "none" THEN Raise(steps.err)
      ELSE IF t.err # "none" THEN Raise(t.err)
      ELSE IF t.seq = <<>> THEN Raise("IndexError")
      ELSE IF resolved.err # "none" THEN Raise(resolved.err)
      ELSE IF name.err # "none" THEN Raise(name.err)
      ELSE IF startTime.err # "none" THEN Raise(startTime.err)
      ELSE IF finishTime.err # "none" THEN Raise(finishTime.err)
      ELSE [err |-> "none",
            detail |-> [id |-> stepId.val, startTime |-> startTime.val,
                        finishTime |-> finishTime.val, repository |-> resolved.repo,
                        parameters |-> resolved.parameters]]

(***************************************************************************)
(* Log lines.  JobLine and MarkerLine are in the form the two patterns     *)
(* describe; T stands for the timestamp.                                    *)
(***************************************************************************)
\* '[T INFO Worker] Job message:\n'
JobLine ==
  <<"[", "T", " ", "I", "N", "F", "O", " ", "W", "o", "r", "k", "e", "r", "]", " ", "J",
    "o", "b", " ", "m", "e", "s", "s", "a", "g", "e", ":", "\n">>

\* '[T INFO ExecutionContext] Publish step telemetry for current step {\n'
MarkerLine ==
  <<"[", "T", " ", "I", "N", "F", "O", " ", "E", "x", "e", "c", "u", "t", "i", "o", "n",
    "C", "o", "n", "t", "e", "x", "t", "]", " ", "P", "u", "b", "l", "i", "s", "h", " ",
    "s", "t", "e", "p", " ", "t", "e", "l", "e", "m", "e", "t", "r", "y", " ", "f", "o",
    "r", " ", "c", "u", "r", "r", "e", "n", "t", " ", "s", "t", "e", "p", " ", "{", "\n">>

\* '  "a":1\n'
ContentA ==
  <<" ", " ", "\"", "a", "\"", ":", "1", "\n">>

\* '  "b":2}.\n'
TermB ==
  <<" ", " ", "\"", "b", "\"", ":", "2", "}", ".", "\n">>

\* '  "AccessToken": "s",\n'
TokenLine ==
  <<" ", " ", "\"", "A", "c", "c", "e", "s", "s", "T", "o", "k", "e", "n", "\"", ":", " ",
    "\"", "s", "\"", ",", "\n">>

\* '[T INFO Runner] x\n'
BracketLine ==
  <<"[", "T", " ", "I", "N", "F", "O", " ", "R", "u", "n", "n", "e", "r", "]", " ", "x",
    "\n">>

\* '{"a":1}\n'
ObjLine ==
  <<"{", "\"", "a", "\"", ":", "1", "}", "\n">>

(***************************************************************************)
(* The worker log as the runner writes it: a job message followed by the   *)
(* job's JSON, one member a line, which the next bracketed log line ends;   *)
(* then, for each step, the telemetry marker, the step's members, one a     *)
(* line, and a line "}." .                                                  *)
(***************************************************************************)
DigitChar(d) ==
  CASE d = 0 -> "0" [] d = 1 -> "1" [] d = 2 -> "2" [] d = 3 -> "3" [] d = 4 -> "4"
    [] d = 5 -> "5" [] d = 6 -> "6" [] d = 7 -> "7" [] d = 8 -> "8" [] d = 9 -> "9"

RECURSIVE IntChars(_)
IntChars(n) ==
  IF n < 10 THEN <<DigitChar(n)>> ELSE IntChars(n \div 10) \o <<DigitChar(n % 10)>>

RECURSIVE Dump(_)
RECURSIVE DumpItems(_, _)

\* The JSON text of a value
Dump(v) ==
  CASE v.t = "str" -> <<"\"">> \o v.s \o <<"\"">>
    [] v.t = "int" -> IF v.n < 0 THEN <<"-">> \o IntChars(0 - v.n) ELSE IntChars(v.n)
    [] v.t = "float" -> v.s
    [] v.t = "bool" -> IF v.n = 1 THEN <<"t", "r", "u", "e">> ELSE <<"f", "a", "l", "s", "e">>
    [] v.t = "none" -> <<"n", "u", "l", "l">>
    [] v.t = "list" -> <<"[">> \o DumpItems(v.items, FALSE) \o <<"]">>
    [] v.t = "dict" -> <<"{">> \o DumpItems(v.items, TRUE) \o <<"}">>

DumpItems(its, keyed) ==
  IF its = <<>> THEN <<>>
  ELSE (IF keyed THEN <<"\"">> \o its[1].k \o <<"\"", ":", " ">> ELSE <<>>)
       \o Dump(its[1].v)
       \o (IF Len(its) > 1 THEN <<",", " ">> \o DumpItems(Tail(its), keyed) ELSE <<>>)

\* The members of a dict, one an indented line
MemberLines(v) ==
  [x \in 1..Len(v.items) |->
     <<" ", " ", "\"">> \o v.items[x].k \o <<"\"", ":", " ">> \o Dump(v.items[x].v)
       \o (IF x < Len(v.items) THEN <<",", "\n">> ELSE <<"\n">>)]

OpenLine == <<"{", "\n">>
CloseLine == <<"}", "\n">>
ClosingLine == <<"}", ".", "\n">>

RECURSIVE EventLines(_)
EventLines(events) ==
  IF events = <<>> THEN <<>>
  ELSE <<MarkerLine>> \o MemberLines(events[1]) \o <<ClosingLine>>
       \o EventLines(Tail(events))

LogFile(job, events) ==
  <<JobLine, OpenLine>> \o MemberLines(job) \o <<CloseLine, BracketLine>>
    \o EventLines(events)

(***************************************************************************)
(* The job contexts and step events of the structured log files.           *)
(***************************************************************************)
V_42 == <<"4", "2">>
V_org_main == <<"o", "r", "g", "/", "m", "a", "i", "n">>
V_org_dep == <<"o", "r", "g", "/", "d", "e", "p">>
V_fetch_depth == <<"f", "e", "t", "c", "h", "-", "d", "e", "p", "t", "h">>
V_1 == <<"1">>
V_s1 == <<"s", "1">>
V_s2 == <<"s", "2">>
V_s3 == <<"s", "3">>
V_s9 == <<"s", "9">>
V_checkout == <<"c", "h", "e", "c", "k", "o", "u", "t">>
V_actions_cache == <<"a", "c", "t", "i", "o", "n", "s", "/", "c", "a", "c", "h", "e">>
V_start ==
  <<"2", "0", "2", "4", "-", "0", "1", "-", "0", "1", "T", "0", "0", ":", "0", "0", ":",
    "0", "0", ".", "1", "2", "3", "4", "5", "6", "7", "Z">>
V_finish ==
  <<"2", "0", "2", "4", "-", "0", "1", "-", "0", "1", "T", "0", "0", ":", "0", "0", ":",
    "0", "5", ".", "1", "2", "3", "4", "5", "6", "7", "Z">>

\* A start time with three digits of fraction
V_start_ms ==
  <<"2", "0", "2", "4", "-", "0", "1", "-", "0", "1", "T", "0", "0", ":", "0", "0",
    ":", "0", "0", ".", "1", "2", "3", "Z">>

Dict(its) == JObj(its)

\* {"k": k, "v": v}
ContextEntry(k, v) == Dict(<<Item(S_k, JStr(k)), Item(S_v, JStr(v))>>)

\* {"lit": x}
Lit(x) == Dict(<<Item(S_lit, JStr(x))>>)

\* {"key": {"lit": k}, "value": {"lit": v}}
InputPair(k, v) == Dict(<<Item(S_key, Lit(k)), Item(S_value, Lit(v))>>)

\* {"map": [pairs]}
Inputs(pairs) == Dict(<<Item(S_map, JList(pairs))>>)

StepWithInputs(id, pairs) ==
  Dict(<<Item(S_id, JStr(id)), Item(S_name, JStr(V_checkout)),
         Item(S_inputs, Inputs(pairs))>>)

StepWithoutInputs(id) ==
  Dict(<<Item(S_id, JStr(id)), Item(S_name, JStr(V_checkout))>>)

\* s1 checks out org/dep, s2 has no inputs, s3 has inputs but no repository
Steps ==
  <<StepWithInputs(V_s1, <<InputPair(S_repository, V_org_dep),
                           InputPair(V_fetch_depth, V_1)>>),
    StepWithoutInputs(V_s2),
    StepWithInputs(V_s3, <<InputPair(V_fetch_depth, V_1)>>)>>

RunIdEntry == ContextEntry(S_run_id, V_42)
RepositoryEntry == ContextEntry(S_repository, V_org_main)

\* The context variables: with and without run_id and repository
ContextLists ==
  {<<RunIdEntry, RepositoryEntry>>, <<RunIdEntry>>, <<RepositoryEntry>>, <<>>}

JobContext(entries) ==
  Dict(<<Item(S_contextData,
              Dict(<<Item(S_github, Dict(<<Item(S_d, JList(entries))>>))>>)),
         Item(S_steps, JList(Steps))>>)

StepEvent(action, stepId) ==
  Dict(<<Item(S_action, JStr(action)), Item(S_stepId, JStr(stepId)),
         Item(S_startTime, JStr(V_start)), Item(S_finishTime, JStr(V_finish))>>)

\* A checkout of s2 whose start time has three digits of fraction
ShortFractionEvent ==
  Dict(<<Item(S_action, JStr(S_actions_checkout)), Item(S_stepId, JStr(V_s2)),
         Item(S_startTime, JStr(V_start_ms)), Item(S_finishTime, JStr(V_finish))>>)

\* Checkouts of s1, s2, s3 and of a step the job does not define, another
\* action, and the checkout with the short fraction
Events ==
  {StepEvent(S_actions_checkout, V_s1), StepEvent(S_actions_checkout, V_s2),
   StepEvent(S_actions_checkout, V_s3), StepEvent(S_actions_checkout, V_s9),
   StepEvent(V_actions_cache, V_s2), ShortFractionEvent}

MaxActions == 2

EventLists == UNION {[1..n -> Events] : n \in 0..MaxActions}

\* Every list of events after the whole context; one event at most after a
\* context that lacks an entry
StructuredFiles ==
  {LogFile(JobContext(<<RunIdEntry, RepositoryEntry>>), es) : es \in EventLists}
    \cup {LogFile(JobContext(c), es) :
            c \in ContextLists, es \in {e \in EventLists : Len(e) <= 1}}

(***************************************************************************)
(* The loop of extract_checkout_actions (lines 143-150) as a step on its     *)
(* locals.                                                                  *)
(***************************************************************************)
\* The state of the loop before the first line
InitialScan ==
  [capturing |-> FALSE, json_str |-> <<>>, data |-> JNone, branch |-> "none",
   parsed |-> <<>>, checkout_actions |-> <<>>]

\* One iteration of the loop (lines 148-150) from the loop state st
ScanStep(st, line) ==
  LET Iteration(r, b) ==
        [capturing |-> r.capturing,
         json_str |-> r.json_str,
         data |-> r.data,
         branch |-> b,
         parsed |-> IF b \in {"terminator", "bracket"}
                      THEN ParseInput(b, st.json_str) ELSE st.parsed,
         checkout_actions |-> IF IsTruthy(r.data)
                                THEN Append(st.checkout_actions, r.data)
                                ELSE st.checkout_actions]
  IN  Iteration(process_line(line, st.capturing, st.json_str),
                Branch(line, st.capturing))

(***************************************************************************)
(* The log files the model reads.  Lines is the alphabet of the generated  *)
(* files: every sequence of at most MaxLines of its lines is a file.        *)
(***************************************************************************)
Lines == {JobLine, MarkerLine, ContentA, TermB, TokenLine, BracketLine, ObjLine}

MaxLines == 4

GeneratedFiles == UNION {[1..n -> Lines] : n \in 0..MaxLines}

\* A failed capture (the job message closed by a '[' line) and then a whole one
FileRecover == <<JobLine, BracketLine, MarkerLine, ContentA, TermB>>

\* The whole context, another action, then the checkouts of s2 and of s1
FileMixed ==
  LogFile(JobContext(<<RunIdEntry, RepositoryEntry>>),
          <<StepEvent(V_actions_cache, V_s2), StepEvent(S_actions_checkout, V_s2),
            StepEvent(S_actions_checkout, V_s1)>>)

\* The whole context, then the checkouts of s1, of a step the job does not
\* have, and of s2
FileUnknownStep ==
  LogFile(JobContext(<<RunIdEntry, RepositoryEntry>>),
          <<StepEvent(S_actions_checkout, V_s1), StepEvent(S_actions_checkout, V_s9),
            StepEvent(S_actions_checkout, V_s2)>>)

\* Lines that more than one test of process_line matches
\* '  "AccessToken": "s"}.\n'
TokenTermLine ==
  <<" ", " ", "\"", "A", "c", "c", "e", "s", "s", "T", "o", "k", "e", "n", "\"", ":",
    " ", "\"", "s", "\"", "}", ".", "\n">>

\* '[1]}.\n'
BracketTermLine ==
  <<"[", "1", "]", "}", ".", "\n">>

\* '[T INFO Worker] Job message: {}.\n'
JobTermLine ==
  <<"[", "T", " ", "I", "N", "F", "O", " ", "W", "o", "r", "k", "e", "r", "]", " ",
    "J", "o", "b", " ", "m", "e", "s", "s", "a", "g", "e", ":", " ", "{", "}", ".",
    "\n">>

\* '"AccessToken" [T INFO ExecutionContext] Publish step telemetry for current step {\n'
TokenMarkerLine ==
  <<"\"", "A", "c", "c", "e", "s", "s", "T", "o", "k", "e", "n", "\"", " ", "[", "T",
    " ", "I", "N", "F", "O", " ", "E", "x", "e", "c", "u", "t", "i", "o", "n", "C",
    "o", "n", "t", "e", "x", "t", "]", " ", "P", "u", "b", "l", "i", "s", "h", " ",
    "s", "t", "e", "p", " ", "t", "e", "l", "e", "m", "e", "t", "r", "y", " ", "f",
    "o", "r", " ", "c", "u", "r", "r", "e", "n", "t", " ", "s", "t", "e", "p", " ",
    "{", "\n">>

\* ' [T INFO ExecutionContext] Publish step telemetry for current step {\n'
IndentedMarkerLine ==
  <<" ", "[", "T", " ", "I", "N", "F", "O", " ", "E", "x", "e", "c", "u", "t", "i",
    "o", "n", "C", "o", "n", "t", "e", "x", "t", "]", " ", "P", "u", "b", "l", "i",
    "s", "h", " ", "s", "t", "e", "p", " ", "t", "e", "l", "e", "m", "e", "t", "r",
    "y", " ", "f", "o", "r", " ", "c", "u", "r", "r", "e", "n", "t", " ", "s", "t",
    "e", "p", " ", "{", "\n">>

EdgeLines ==
  {TokenTermLine, BracketTermLine, JobTermLine, TokenMarkerLine, IndentedMarkerLine}

\* Each of them met first, and met after the start of a capture and one line
EdgeFiles ==
  {<<e, c>> : e \in EdgeLines, c \in {ContentA, TermB}}
    \cup {<<a, b, e, c>> : a \in {JobLine, MarkerLine}, b \in {ContentA, ObjLine},
                           e \in EdgeLines, c \in {ContentA, TermB}}

ScenarioFiles == {FileRecover, FileMixed, FileUnknownStep} \cup EdgeFiles

Files == GeneratedFiles \cup ScenarioFiles \cup StructuredFiles

(***************************************************************************)
(* State.  pc is the place main() has reached; lines, capturing, json_str, *)
(* data and checkout_actions are the locals of extract_checkout_actions     *)
(* (data is the third component process_line returned for the last line).   *)
(* branch and parsed record, for the last line scanned, the arm of          *)
(* process_line it took and the last string handed to parse_json; prev is    *)
(* the loop state before the last line scanned.                             *)
(* run_id, mainRepository, todo (the filtered checkout actions), k (how     *)
(* many of them are done) and metrics are the locals of process_actions;    *)
(* detail is the CheckoutStepDetails in hand; telemetry is what the         *)
(* TelemetryClient was asked to do, in order; error is the uncaught         *)
(* exception that ended the run.                                            *)
(***************************************************************************)
VARIABLES pc, file_status, lines, i, capturing, json_str, data, branch, parsed,
          checkout_actions, prev, run_id, mainRepository, todo, k, detail, metrics,
          telemetry, error,
          date_str, truncations, startUnits, finishUnits, digits, delta, durations

\* The state of a run of main
main_vars == <<pc, file_status, lines, i, capturing, json_str, data, branch, parsed,
               checkout_actions, prev, run_id, mainRepository, todo, k, detail, metrics,
               telemetry, error>>

\* The state of the timestamp functions applied on their own: date_str is the
\* string given to truncate_microseconds and truncations its successive results;
\* startUnits and finishUnits are two instants counted in units of 10^-digits
\* seconds, delta the offset applied to both, and durations the durations
\* computed from their timestamps so far.
time_vars == <<date_str, truncations, startUnits, finishUnits, digits, delta, durations>>

vars == <<main_vars, time_vars>>

scan_vars ==
  <<lines, i, capturing, json_str, data, branch, parsed, checkout_actions, prev>>

corr_vars == <<run_id, mainRepository, todo, k, detail, metrics, telemetry>>

Init ==
  /\ pc = "main"
  /\ file_status = "unselected"
  /\ lines = <<>>
  /\ i = 0
  /\ capturing = FALSE
  /\ json_str = <<>>
  /\ data = JNone
  /\ branch = "none"
  /\ parsed = <<>>
  /\ checkout_actions = <<>>
  /\ prev = InitialScan
  /\ run_id = JNone
  /\ mainRepository = JNone
  /\ todo = <<>>
  /\ k = 0
  /\ detail = NoDetail
  /\ metrics = <<>>
  /\ telemetry = <<>>
  /\ error = "none"
  /\ date_str = <<>>
  /\ truncations = <<>>
  /\ startUnits = 0
  /\ finishUnits = 0
  /\ digits = 6
  /\ delta = 0
  /\ durations = <<>>

(***************************************************************************)
(* main (lines 302-317): the choice of the log file.                        *)
(***************************************************************************)
\* os.listdir raises: the diagnostics directory does not exist
ListDirFails ==
  /\ pc = "main"
  /\ pc' = "crashed"
  /\ error' = "FileNotFoundError"
  /\ UNCHANGED <<file_status, scan_vars, corr_vars>>
  /\ UNCHANGED time_vars

\* No file name starts with Worker_: a warning, and main returns
NoLogFiles ==
  /\ pc = "main"
  /\ pc' = "done"
  /\ UNCHANGED <<file_status, scan_vars, corr_vars, error>>
  /\ UNCHANGED time_vars

\* The most recent Worker_ file is selected
SelectLogFile ==
  /\ pc = "main"
  /\ pc' = "read_file"
  /\ file_status' = "selected"
  /\ UNCHANGED <<scan_vars, corr_vars, error>>
  /\ UNCHANGED time_vars

(***************************************************************************)
(* read_file (lines 63-81) and the head of extract_checkout_actions        *)
(* (lines 138-145).                                                         *)
(***************************************************************************)
\* The file opens; an empty one makes extract_checkout_actions return []
ReadFileOk ==
  /\ pc = "read_file"
  /\ \E f \in Files :
       /\ lines' = f
       /\ pc' = IF f = <<>> THEN "process_actions" ELSE "scan"
  /\ file_status' = "read"
  /\ UNCHANGED <<i, capturing, json_str, data, branch, parsed, checkout_actions,
                 prev, corr_vars, error>>
  /\ UNCHANGED time_vars

\* open() raises FileNotFoundError or another IOError: logged, [] returned
ReadFileError ==
  /\ pc = "read_file"
  /\ \E st \in {"missing", "unreadable"} : file_status' = st
  /\ lines' = <<>>
  /\ pc' = "process_actions"
  /\ UNCHANGED <<i, capturing, json_str, data, branch, parsed, checkout_actions,
                 prev, corr_vars, error>>
  /\ UNCHANGED time_vars

(***************************************************************************)
(* The loop of extract_checkout_actions (lines 147-152).                    *)
(***************************************************************************)
\* The loop state as the variables hold it
ScanState ==
  [capturing |-> capturing, json_str |-> json_str, data |-> data, branch |-> branch,
   parsed |-> parsed, checkout_actions |-> checkout_actions]

ScanLine ==
  /\ pc = "scan"
  /\ i < Len(lines)
  /\ \E st \in {ScanStep(ScanState, lines[i + 1])} :
       /\ capturing' = st.capturing
       /\ json_str' = st.json_str
       /\ data' = st.data
       /\ branch' = st.branch
       /\ parsed' = st.parsed
       /\ checkout_actions' = st.checkout_actions
  /\ prev' = ScanState
  /\ i' = i + 1
  /\ UNCHANGED <<pc, file_status, lines, corr_vars, error>>
  /\ UNCHANGED time_vars

\* A return that first parses the buffer of a capture still open and collects it
ScanReturn_FlushPending ==
  /\ pc = "scan"
  /\ i = Len(lines)
  /\ pc' = "process_actions"
  /\ checkout_actions' = IF capturing /\ IsTruthy(parse_json(json_str))
                           THEN Append(checkout_actions, parse_json(json_str))
                           ELSE checkout_actions
  /\ UNCHANGED <<lines, i, capturing, json_str, data, branch, parsed, prev>>
  /\ UNCHANGED <<file_status, corr_vars, error>>
  /\ UNCHANGED time_vars

\* The lines are exhausted: return checkout_actions
ScanReturn ==
  /\ pc = "scan"
  /\ i = Len(lines)
  /\ pc' = "process_actions"
  /\ UNCHANGED <<file_status, scan_vars, corr_vars, error>>
  /\ UNCHANGED time_vars

(***************************************************************************)
(* process_actions (lines 231-244), called by main with the fragments      *)
(* extract_checkout_actions returned.                                       *)
(***************************************************************************)
\* The exception lines 238-243 raise on these fragments, "none" if they raise none
ProcessActionsError(actions) ==
  LET Filter(id, repository) ==
        IF id.err # "none" THEN id.err
        ELSE IF repository.err # "none" THEN repository.err
        ELSE IF \E x \in 2..Len(actions) : ~IsDict(actions[x]) THEN "AttributeError"
        ELSE "none"
  IN  IF actions = <<>> THEN "IndexError"
      ELSE Filter(extract_run_id(actions[1]), extract_main_repository(actions[1]))

\* jobData, run_id, mainRepository and the filter of the checkout actions
ProcessActions ==
  /\ pc = "process_actions"
  /\ \E e \in {ProcessActionsError(checkout_actions)} :
       IF e # "none"
         THEN /\ pc' = "crashed"
              /\ error' = e
              /\ UNCHANGED corr_vars
         ELSE /\ pc' = "loop"
              /\ run_id' = extract_run_id(checkout_actions[1]).val
              /\ mainRepository' = extract_main_repository(checkout_actions[1]).val
              /\ todo' = SelectSeq(Tail(checkout_actions), is_checkout_action)
              /\ UNCHANGED <<k, detail, metrics, telemetry, error>>
  /\ UNCHANGED <<file_status, scan_vars>>
  /\ UNCHANGED time_vars

\* process_single_action on the next checkout action, up to the call of track_action
ProcessSingleAction ==
  /\ pc = "loop"
  /\ k < Len(todo)
  /\ \E r \in {process_single_action(todo[k + 1], checkout_actions[1], mainRepository)} :
       IF r.err # "none"
         THEN /\ pc' = "crashed"
              /\ error' = r.err
              /\ UNCHANGED <<detail, metrics>>
         ELSE /\ pc' = "track"
              /\ detail' = r.detail
              /\ metrics' = Append(metrics, r.detail)
              /\ UNCHANGED error
  /\ UNCHANGED <<file_status, scan_vars, run_id, mainRepository, todo, k, telemetry>>
  /\ UNCHANGED time_vars

NoProperties ==
  [startTime |-> JNone, finishTime |-> JNone, duration |-> [seconds |-> 0, micros |-> 0],
   repository |-> JNone, parameters |-> <<>>]

\* track_action up to tc.track_event (lines 217-228): the property bag is built,
\* which computes the duration, and the event is handed to the client
TrackEvent ==
  /\ pc = "track"
  /\ \E dur \in {duration(detail.startTime, detail.finishTime)} :
       IF dur.err # "none"
         THEN /\ pc' = "crashed"
              /\ error' = dur.err
              /\ UNCHANGED telemetry
         ELSE /\ pc' = "flush"
              /\ telemetry' =
                   Append(telemetry,
                     [op |-> "track_event", name |-> detail.id,
                      properties |->
                        [startTime |-> detail.startTime,
                         finishTime |-> detail.finishTime,
                         duration |-> [seconds |-> dur.seconds, micros |-> dur.micros],
                         repository |-> detail.repository,
                         parameters |-> detail.parameters]])
              /\ UNCHANGED error
  /\ UNCHANGED <<file_status, scan_vars, run_id, mainRepository, todo, k, detail, metrics>>
  /\ UNCHANGED time_vars

\* tc.flush() (line 229), and on to the next checkout action
Flush ==
  /\ pc = "flush"
  /\ telemetry' = Append(telemetry, [op |-> "flush", name |-> JNone,
                                     properties |-> NoProperties])
  /\ k' = k + 1
  /\ pc' = "loop"
  /\ UNCHANGED <<file_status, scan_vars, run_id, mainRepository, todo, detail, metrics,
                 error>>
  /\ UNCHANGED time_vars

\* The loop of process_actions is over: main returns
ProcessActionsReturn ==
  /\ pc = "loop"
  /\ k = Len(todo)
  /\ pc' = "done"
  /\ UNCHANGED <<file_status, scan_vars, corr_vars, error>>
  /\ UNCHANGED time_vars

Next ==
  \/ ListDirFails
  \/ NoLogFiles
  \/ SelectLogFile
  \/ ReadFileOk
  \/ ReadFileError
  \/ ScanLine
  \/ ScanReturn
  \/ ProcessActions
  \/ ProcessSingleAction
  \/ TrackEvent
  \/ Flush
  \/ ProcessActionsReturn

Spec == Init /\ [][Next]_vars

(***************************************************************************)
(* truncate_microseconds (lines 49-61) and the duration property           *)
(* (lines 40-44) applied on their own, to timestamps of the form the        *)
(* runner writes.                                                           *)
(***************************************************************************)
\* '2024-01-01T'
V_date == <<"2", "0", "2", "4", "-", "0", "1", "-", "0", "1", "T">>

\* '00:00:05'
V_time == <<"0", "0", ":", "0", "0", ":", "0", "5">>

\* What follows the seconds: nothing, a bare '.', and 3, 6, 7 and 9 digits
Fractions ==
  {<<>>, <<".">>, <<".", "1", "2", "3">>, <<".", "1", "2", "3", "4", "5", "6">>,
   <<".", "1", "2", "3", "4", "5", "6", "7">>, <<".", "1", "2", "3", "4", "5", "6", "7", "8", "9">>}

\* The strings given to truncate_microseconds, with and without the final 'Z'
DateStrings == {V_date \o V_time \o f \o z : f \in Fractions, z \in {<<"Z">>, <<>>}}

\* The decimal digits of n in a field of width w, zeros in front
RECURSIVE Padded(_, _)
Padded(n, w) == IF w = 0 THEN <<>> ELSE Padded(n \div 10, w - 1) \o <<DigitChar(n % 10)>>

RECURSIVE Pow10(_)
Pow10(n) == IF n = 0 THEN 1 ELSE 10 * Pow10(n - 1)

\* The timestamp, with d fractional digits, of the instant u units of 10^-d
\* seconds after 2024-01-01T00:00:00
Timestamp(u, d) ==
  LET Format(sec, frac) ==
        V_date \o Padded(sec \div 3600, 2) \o <<":">> \o Padded((sec \div 60) % 60, 2)
          \o <<":">> \o Padded(sec % 60, 2) \o <<".">> \o Padded(frac, d) \o <<"Z">>
  IN  Format(u \div Pow10(d), u % Pow10(d))

\* The instants of the start and of the finish, and the offsets, in units
StartUnits == {0, 9, 90, 9999990, 599999995}
FinishUnits == {0, 10, 100, 10000000, 50000000}
Deltas == {1, 10, 10000000}

\* How many times truncate_microseconds is applied in a row
MaxTruncations == 2

TimeInit ==
  /\ pc = "main"
  /\ file_status = "unselected"
  /\ lines = <<>>
  /\ i = 0
  /\ capturing = FALSE
  /\ json_str = <<>>
  /\ data = JNone
  /\ branch = "none"
  /\ parsed = <<>>
  /\ checkout_actions = <<>>
  /\ prev = InitialScan
  /\ run_id = JNone
  /\ mainRepository = JNone
  /\ todo = <<>>
  /\ k = 0
  /\ detail = NoDetail
  /\ metrics = <<>>
  /\ telemetry = <<>>
  /\ error = "none"
  /\ date_str \in DateStrings
  /\ truncations = <<>>
  /\ startUnits \in StartUnits
  /\ finishUnits \in FinishUnits
  /\ digits \in {6, 7}
  /\ delta \in Deltas
  /\ durations = <<>>

\* truncate_microseconds applied to date_str, then to its own result
Truncate ==
  /\ Len(truncations) < MaxTruncations
  /\ truncations' =
       Append(truncations,
              truncate_microseconds(IF truncations = <<>> THEN date_str
                                    ELSE truncations[Len(truncations)]))
  /\ UNCHANGED <<main_vars, date_str, startUnits, finishUnits, digits, delta, durations>>

\* The duration property of a CheckoutStepDetails with the two timestamps
ComputeDuration ==
  /\ \A x \in 1..Len(durations) : durations[x].startUnits # startUnits
  /\ durations' =
       Append(durations,
              [startUnits |-> startUnits,
               duration |-> duration(JStr(Timestamp(startUnits, digits)),
                                     JStr(Timestamp(finishUnits, digits)))])
  /\ UNCHANGED <<main_vars, date_str, truncations, startUnits, finishUnits, digits, delta>>

\* Both timestamps move by delta, once the first duration is known
Shift ==
  /\ Len(durations) = 1
  /\ durations[1].startUnits = startUnits
  /\ startUnits' = startUnits + delta
  /\ finishUnits' = finishUnits + delta
  /\ UNCHANGED <<main_vars, date_str, truncations, digits, delta, durations>>

TimeNext ==
  \/ Truncate
  \/ ComputeDuration
  \/ Shift

SpecTime == TimeInit /\ [][TimeNext]_vars

(***************************************************************************)
(* The scan as a function of the lines read so far.                         *)
(***************************************************************************)
\* The loop state after the lines ls, from the loop state st
RECURSIVE ScanLines(_, _)
ScanLines(st, ls) ==
  IF ls = <<>> THEN st ELSE ScanLines(ScanStep(st, Head(ls)), Tail(ls))

\* The loop state after the first n lines of the file
StateAt(n) == ScanLines(InitialScan, SubSeq(lines, 1, n))

\* The file starts with the lines ls, and they are the lines scanned so far
Scanned(ls) ==
  pc = "scan" /\ i = Len(ls) /\ Len(lines) >= i /\ SubSeq(lines, 1, i) = ls

\* {"a":1} and {"a":1,"b":2}
ObjA == JObj(<<Item(<<"a">>, JInt(1))>>)
ObjAB == JObj(<<Item(<<"a">>, JInt(1)), Item(<<"b">>, JInt(2))>>)

\* The last line closed a capture whose buffer was not JSON
FailedClose(st) ==
  st.branch \in {"terminator", "bracket"} /\ JSONDecodeError(st.parsed)

(***************************************************************************)
(* C1.  The four lines job message, action marker, '  "a":1', '  "b":2}.'   *)
(***************************************************************************)
FileC1 == <<JobLine, MarkerLine, ContentA, TermB>>

\* C1 as stated: after the four lines exactly one fragment, {"a":1,"b":2}, has
\* been emitted and the machine is not capturing.
C1_OneFragmentEmitted ==
  Scanned(FileC1) => checkout_actions = <<ObjAB>> /\ ~capturing

\* C1 amended: after the four lines nothing has been emitted and the machine is
\* not capturing, its buffer empty: the job message starts a capture with an
\* empty buffer, the action marker, a '[' line met while capturing, ends it on
\* a buffer that is not JSON, and the last two lines are met while not capturing.
C1_NothingEmitted ==
  Scanned(FileC1) =>
    /\ checkout_actions = <<>>
    /\ ~capturing /\ json_str = <<>> /\ data = JNone
    /\ StateAt(1).capturing /\ StateAt(1).json_str = <<>>
    /\ StateAt(2).branch = "bracket" /\ FailedClose(StateAt(2))
    /\ StateAt(3).branch = "idle" /\ branch = "idle"

C1_Witness == Scanned(FileC1) /\ checkout_actions = <<>> /\ branch = "idle"

(***************************************************************************)
(* C2.  Access-token lines inside a capture.                                *)
(***************************************************************************)
\* A line whose trimmed text starts with the access-token marker, that is no job
\* message and does not end with "}."
IsAccessTokenLine(l) ==
  /\ startswith(strip(l), ACCESS_TOKEN_PATTERN)
  /\ ~pattern_search(l, JOB_MESSAGE_LITERAL)
  /\ ~endswith(strip(l), <<"}", ".">>)

\* The access-token marker occurs somewhere in s
HoldsAccessToken(s) ==
  \E j \in 1..Len(s) : s[j] = "\"" /\ OccursAt(s, ACCESS_TOKEN_PATTERN, j)

\* C2: an access-token line met while capturing leaves the capture state and the
\* buffer as they were and emits nothing, and no string handed to the parser
\* holds the access-token marker.
C2_AccessTokenExcluded ==
  /\ (pc = "scan" /\ i >= 1 /\ prev.capturing /\ IsAccessTokenLine(lines[i])) =>
       /\ capturing /\ json_str = prev.json_str
       /\ data = JNone
       /\ parsed = prev.parsed
       /\ checkout_actions = prev.checkout_actions
  /\ ~HoldsAccessToken(json_str)
  /\ ~HoldsAccessToken(parsed)

C2_Witness ==
  /\ Scanned(<<MarkerLine, ContentA, TokenLine, TermB>>)
  /\ IsAccessTokenLine(lines[3]) /\ StateAt(2).capturing
  /\ StateAt(3).branch = "token" /\ StateAt(3).json_str = StateAt(2).json_str
  /\ parsed = <<"{", "\"", "a", "\"", ":", "1", "}">>
  /\ checkout_actions = <<ObjA>>

(***************************************************************************)
(* C3.  A capture that ends on a buffer that is not JSON.                   *)
(***************************************************************************)
\* The last three lines are an action marker met while not capturing, one
\* accumulated line and a terminator, and they make up valid JSON
WholeCaptureAtEnd ==
  /\ i >= 3
  /\ Branch(lines[i], TRUE) = "terminator"
  /\ Branch(lines[i - 1], TRUE) = "accumulate"
  /\ Branch(lines[i - 2], FALSE) = "action"
  /\ ~StateAt(i - 3).capturing
  /\ ~JSONDecodeError(<<"{">> \o strip(lines[i - 1]) \o <<"}">>)

\* C3: a terminator or '[' line that ends a capture on a buffer that is not JSON
\* emits nothing and leaves the machine not capturing with an empty buffer; and
\* after such a line an action marker, a content line and a terminator that make
\* up valid JSON are captured and emitted as after no failure.
C3_FailedCloseResets ==
  pc = "scan" /\ i >= 1 =>
    /\ FailedClose(ScanState) =>
         /\ data = JNone /\ ~capturing /\ json_str = <<>>
         /\ checkout_actions = prev.checkout_actions
    /\ (WholeCaptureAtEnd /\ \E f \in 1..(i - 3) : FailedClose(StateAt(f))) =>
         /\ data = parse_json(<<"{">> \o strip(lines[i - 1]) \o <<"}">>)
         /\ ~capturing /\ json_str = <<>>
         /\ checkout_actions =
              StateAt(i - 3).checkout_actions \o (IF IsTruthy(data) THEN <<data>> ELSE <<>>)

C3_Witness ==
  /\ Scanned(FileRecover)
  /\ FailedClose(StateAt(2))
  /\ checkout_actions = <<ObjA>>

(***************************************************************************)
(* C4.  Lines that match none of the five priority rules.                   *)
(***************************************************************************)
\* Not a job message, not an action marker met while not capturing, not a "}."
\* terminator, not an access-token line, not a '[' line
NoRuleLine(l, cap) ==
  /\ ~pattern_search(l, JOB_MESSAGE_LITERAL)
  /\ ~(~cap /\ pattern_search(l, ACTION_MESSAGE_LITERAL))
  /\ ~endswith(strip(l), <<"}", ".">>)
  /\ ~startswith(strip(l), ACCESS_TOKEN_PATTERN)
  /\ ~startswith(l, <<"[">>)

\* C4 as stated: such a line, in either state, leaves the capture state and the
\* buffer as they were and emits nothing.
C4_UnmatchedLineChangesNothing ==
  pc = "scan" /\ i >= 1 /\ NoRuleLine(lines[i], prev.capturing) =>
    /\ capturing = prev.capturing
    /\ json_str = prev.json_str
    /\ data = JNone
    /\ checkout_actions = prev.checkout_actions

\* C4 amended: such a line leaves the capture state as it was and emits nothing;
\* it leaves the buffer as it was while not capturing, and while capturing its
\* trimmed text is appended to the buffer.
C4_UnmatchedLineAccumulates ==
  pc = "scan" /\ i >= 1 /\ NoRuleLine(lines[i], prev.capturing) =>
    /\ capturing = prev.capturing
    /\ json_str = IF capturing THEN prev.json_str \o strip(lines[i])
                               ELSE prev.json_str
    /\ data = JNone
    /\ checkout_actions = prev.checkout_actions

\* Such a line has been met while not capturing and, later, while capturing,
\* where it made the buffer longer
C4_Witness ==
  /\ pc = "scan" /\ i >= 2
  /\ NoRuleLine(lines[i], TRUE) /\ prev.capturing
  /\ Len(json_str) > Len(prev.json_str)
  /\ \E j \in 1..(i - 1) : NoRuleLine(lines[j], FALSE) /\ ~StateAt(j - 1).capturing

(***************************************************************************)
(* C5.  What the caller sees of a failed parse.                             *)
(***************************************************************************)
\* C5: when the last line ended a capture on a buffer that is not JSON, the
\* triple process_line returned for it differs from every triple process_line
\* returns for a line that takes neither the terminator nor the '[' arm.
C5_FailureDistinctFromNoEmission ==
  pc = "scan" /\ i >= 1 /\ FailedClose(ScanState) =>
    \A l \in Lines, c \in BOOLEAN, b \in {<<>>, prev.json_str} :
      Branch(l, c) \notin {"terminator", "bracket"} =>
        process_line(l, c, b) # [capturing |-> capturing, json_str |-> json_str,
                                 data |-> data]

(***************************************************************************)
(* C6.  Which lines emit.                                                   *)
(***************************************************************************)
\* Rule 3: a terminator met while capturing
IsRule3(l, cap) ==
  cap /\ ~pattern_search(l, JOB_MESSAGE_LITERAL) /\ endswith(strip(l), <<"}", ".">>)

\* Rule 5: a '[' line met while capturing that rules 1, 3 and 4 leave alone
IsRule5(l, cap) ==
  /\ cap /\ ~pattern_search(l, JOB_MESSAGE_LITERAL)
  /\ ~endswith(strip(l), <<"}", ".">>)
  /\ ~startswith(strip(l), ACCESS_TOKEN_PATTERN)
  /\ startswith(l, <<"[">>)

\* C6: a line for which process_line returned data, or which added a fragment
\* to checkout_actions, was handled by rule 3 or by rule 5.
C6_OnlyClosingLinesEmit ==
  (/\ pc = "scan" /\ i >= 1
   /\ (data # JNone \/ checkout_actions # prev.checkout_actions))
    => \/ IsRule3(lines[i], prev.capturing)
       \/ IsRule5(lines[i], prev.capturing)

C6_Witness ==
  /\ Scanned(<<JobLine, ObjLine, BracketLine>>)
  /\ IsRule5(lines[i], prev.capturing)
  /\ data = ObjA

(***************************************************************************)
(* The correlation stage as a function of the fragments collected.         *)
(***************************************************************************)
\* The fragments after the first whose 'action' is 'actions/checkout', in order
Checkouts ==
  IF checkout_actions = <<>> THEN <<>>
  ELSE SelectSeq(Tail(checkout_actions),
                 LAMBDA f : DictGet(f, S_action) = JStr(S_actions_checkout))

\* The steps of the job-context fragment
JobSteps ==
  LET steps == DictGet(checkout_actions[1], S_steps)
  IN  IF IsList(steps) THEN Elements(steps) ELSE <<>>

\* The steps whose 'id' is the 'stepId' of the fragment f
StepsOf(f) == SelectSeq(JobSteps, LAMBDA st : DictGet(st, S_id) = DictGet(f, S_stepId))

\* The step of the fragment f resolves
StepFound(f) == StepsOf(f) # <<>>

\* The entries of the step's inputs whose key is 'repository'
RepositoryPairs(step) ==
  LET map == DictGet(DictGet(step, S_inputs), S_map)
  IN  IF IsList(map)
        THEN SelectSeq(Elements(map),
               LAMBDA x : DictGet(DictGet(x, S_key), S_lit) = JStr(S_repository))
        ELSE <<>>

\* What the TelemetryClient was asked to do, as (operation, event name) pairs
Calls == [x \in 1..Len(telemetry) |-> <<telemetry[x].op, telemetry[x].name>>]

\* One event named by the step id, then one flush, for each fragment of fs
EventThenFlush(fs) ==
  [x \in 1..(2 * Len(fs)) |->
     IF x % 2 = 1 THEN <<"track_event", DictGet(fs[(x + 1) \div 2], S_stepId)>>
                  ELSE <<"flush", JNone>>]

\* process_actions returned
Returned == pc = "done" /\ file_status = "read"

\* An exception left the loop of process_actions
RaisedInLoop == pc = "crashed" /\ k < Len(todo)

\* An exception left process_single_action before its metric was appended
RaisedBeforeMetric == RaisedInLoop /\ Len(metrics) = k

(***************************************************************************)
(* C7.  One event and one flush for each checkout fragment.                 *)
(***************************************************************************)
\* The step of the fragment f is found, and it has no inputs or it has a
\* 'repository' input
Resolves(f) ==
  /\ StepFound(f)
  /\ \/ DictGet(StepsOf(f)[1], S_inputs) = JNone
     \/ RepositoryPairs(StepsOf(f)[1]) # <<>>

\* C7 as stated: when the run ends, the telemetry is one event then one flush
\* for every checkout fragment whose step resolves, in fragment order.
C7_EveryResolvingCheckoutTracked ==
  (Returned \/ RaisedInLoop) => Calls = EventThenFlush(SelectSeq(Checkouts, Resolves))

\* C7 amended: the fragments processed are the checkout fragments after the
\* first, in order; at every moment the telemetry is one event then one flush
\* for each of the first k of them, plus the event of the next one while its
\* flush is pending; the run returns only when every one of them has its
\* event and flush, and it ends early only on a checkout fragment whose
\* processing raises, after which no later fragment causes an event.
C7_EventThenFlushUntilFirstFailure ==
  /\ k <= Len(todo)
  /\ Calls = EventThenFlush(SubSeq(todo, 1, k))
               \o (IF pc = "flush"
                     THEN <<<<"track_event", DictGet(todo[k + 1], S_stepId)>>>>
                     ELSE <<>>)
  /\ (pc \in {"loop", "track", "flush"} \/ Returned \/ RaisedInLoop) => todo = Checkouts
  /\ Returned => k = Len(Checkouts)
  /\ RaisedInLoop =>
       \/ process_single_action(Checkouts[k + 1], checkout_actions[1],
                                 mainRepository).err # "none"
       \/ duration(detail.startTime, detail.finishTime).err # "none"

\* Another action, then the checkouts of s2 and s1: two events, each flushed
C7_Witness ==
  /\ Returned /\ lines = FileMixed
  /\ Len(checkout_actions) = 4 /\ Len(Checkouts) = 2
  /\ Calls = <<<<"track_event", JStr(V_s2)>>, <<"flush", JNone>>,
               <<"track_event", JStr(V_s1)>>, <<"flush", JNone>>>>

(***************************************************************************)
(* C8.  The repository of a metric.                                         *)
(***************************************************************************)
\* C8: once process_single_action has acted on a checkout action whose step is
\* found, a metric is there; its repository is the value of the step's
\* 'repository' input when the step has one, and otherwise it is
\* mainRepository, with no parameters.
C8_RepositoryOrFallback ==
  ((pc = "track" \/ RaisedBeforeMetric) /\ StepFound(todo[k + 1])) =>
    LET pairs == RepositoryPairs(StepsOf(todo[k + 1])[1])
    IN  /\ pc = "track" /\ Len(metrics) = k + 1
        /\ IF pairs # <<>>
             THEN metrics[k + 1].repository = DictGet(DictGet(pairs[1], S_value), S_lit)
             ELSE /\ metrics[k + 1].repository = mainRepository
                  /\ metrics[k + 1].parameters = <<>>

(***************************************************************************)
(* C9.  A log file that cannot be read.                                     *)
(***************************************************************************)
\* C9: when the selected file is missing or unreadable there are no lines, no
\* fragment and no telemetry, and no exception ends the run.
C9_UnreadableFileIsNoWork ==
  file_status \in {"missing", "unreadable"} =>
    /\ lines = <<>> /\ checkout_actions = <<>> /\ telemetry = <<>>
    /\ pc # "crashed" /\ error = "none"

(***************************************************************************)
(* C10.  A job context without run_id or without repository.                *)
(***************************************************************************)
\* The context-variable list of jobData has no entry whose 'k' is name
MissingContextVariable(jobData, name) ==
  LET d == DictGet(DictGet(DictGet(jobData, S_contextData), S_github), S_d)
  IN  /\ IsList(d)
      /\ \A x \in 1..Len(d.items) :
           IsDict(d.items[x].v) /\ DictGet(d.items[x].v, S_k) # JStr(name)

\* C10: when the first fragment's context-variable list lacks run_id or
\* repository, process_actions ends the run with an IndexError before it
\* examines any action: nothing is filtered, no metric is made, no telemetry
\* is sent, and neither run_id nor mainRepository gets a value.
C10_MissingFieldAborts ==
  (/\ pc \notin {"main", "read_file", "scan"}
   /\ checkout_actions # <<>>
   /\ \/ MissingContextVariable(checkout_actions[1], S_run_id)
      \/ MissingContextVariable(checkout_actions[1], S_repository))
    => /\ telemetry = <<>> /\ metrics = <<>> /\ todo = <<>> /\ k = 0
       /\ run_id = JNone /\ mainRepository = JNone
       /\ \/ pc = "process_actions"
          \/ pc = "crashed" /\ error = "IndexError"

\* run_id is there, repository is not, and a checkout of s2 (a step without
\* inputs, which takes the main repository) follows
C10_Witness ==
  /\ pc = "crashed" /\ error = "IndexError"
  /\ Len(checkout_actions) = 2
  /\ ~MissingContextVariable(checkout_actions[1], S_run_id)
  /\ MissingContextVariable(checkout_actions[1], S_repository)
  /\ checkout_actions[2] = StepEvent(S_actions_checkout, V_s2)

(***************************************************************************)
(* C11.  truncate_microseconds applied twice.                               *)
(***************************************************************************)
\* The number of digits that follow the first '.' of s; 0 when s has no '.'
FractionDigits(s) ==
  IF \E x \in 1..Len(s) : s[x] = "."
    THEN DigitsEnd(s, IndexOfDot(s) + 1) - IndexOfDot(s) - 1
    ELSE 0

\* C11: for a string that ends in 'Z' and has 0, 3, 6 or 9 fractional digits,
\* truncate_microseconds applied to its own result gives that result again.
C11_TruncateIdempotent ==
  (/\ Len(truncations) >= 2
   /\ endswith(date_str, <<"Z">>)
   /\ FractionDigits(date_str) \in {0, 3, 6, 9})
    => truncations[2] = truncations[1]

(***************************************************************************)
(* C12.  The duration of two timestamps moved by the same offset.           *)
(***************************************************************************)
\* A duration in microseconds
Microseconds(d) == d.seconds * 1000000 + d.micros

\* The offset is a whole number of microseconds
WholeMicroseconds == digits <= 6 \/ delta % Pow10(digits - 6) = 0

\* C12 as stated: the duration computed after the offset is the one computed
\* before it.
C12_DurationUnchangedByOffset ==
  Len(durations) = 2 => durations[2].duration = durations[1].duration

\* C12 amended: both durations are computed; they are equal when the offset is
\* a whole number of microseconds, and otherwise differ by one microsecond at
\* most.
C12_DurationUnchangedByMicrosecondOffset ==
  Len(durations) = 2 =>
    /\ durations[1].duration.err = "none" /\ durations[2].duration.err = "none"
    /\ WholeMicroseconds => durations[2].duration = durations[1].duration
    /\ Microseconds(durations[2].duration) - Microseconds(durations[1].duration)
         \in {-1, 0, 1}

\* Seven fractional digits, an offset of one microsecond, instants that are no
\* whole microseconds, and a duration that is not zero
C12_Witness ==
  /\ Len(durations) = 2
  /\ digits = 7 /\ delta = 10
  /\ startUnits % 10 # 0
  /\ durations[2].duration = durations[1].duration
  /\ Microseconds(durations[1].duration) # 0

(***************************************************************************)
(* C13.  A job-message line.                                                *)
(***************************************************************************)
IsJobLine(l) == pattern_search(l, JOB_MESSAGE_LITERAL)

\* C13: a job-message line leaves the machine capturing, the buffer as it was
\* and nothing emitted or parsed, whatever the state before it; a line no rule
\* matches that follows it is appended to the buffer the job-message line
\* found.
C13_JobMessageForcesCapture ==
  /\ (pc = "scan" /\ i >= 1 /\ IsJobLine(lines[i])) =>
       /\ capturing /\ json_str = prev.json_str
       /\ data = JNone
       /\ parsed = prev.parsed
       /\ checkout_actions = prev.checkout_actions
  /\ (pc = "scan" /\ i >= 2 /\ IsJobLine(lines[i - 1]) /\ NoRuleLine(lines[i], TRUE)) =>
       json_str = StateAt(i - 2).json_str \o strip(lines[i])

\* A job message met in the middle of a capture, and a line accumulated after it
C13_Witness ==
  /\ Scanned(<<MarkerLine, ContentA, JobLine, ContentA>>)
  /\ StateAt(2).capturing
  /\ StateAt(3).json_str = <<"{", "\"", "a", "\"", ":", "1">>
  /\ json_str = <<"{", "\"", "a", "\"", ":", "1", "\"", "a", "\"", ":", "1">>
  /\ checkout_actions = <<>>

(***************************************************************************)
(* C14.  The '}.' terminator.                                               *)
(***************************************************************************)
\* C14: while capturing, a line that is no job message and whose stripped text
\* ends with '}.' closes the capture, also when it starts with the access-token
\* marker or with '[': the string parsed is the buffer before the line followed
\* by one '}', the result of the parse is the data returned for the line, and
\* the loop is left not capturing with an empty buffer.
C14_TerminatorParsesBufferAndBrace ==
  (pc = "scan" /\ i >= 1 /\ IsRule3(lines[i], prev.capturing)) =>
    /\ parsed = prev.json_str \o <<"}">>
    /\ data = parse_json(prev.json_str \o <<"}">>)
    /\ ~capturing
    /\ json_str = <<>>

\* A terminator that starts with the access-token marker closes {"a":1}
C14_Witness ==
  /\ Scanned(<<MarkerLine, ContentA, TokenTermLine>>)
  /\ prev.capturing
  /\ startswith(strip(lines[i]), ACCESS_TOKEN_PATTERN)
  /\ data = ObjA
  /\ checkout_actions = <<ObjA>>
  /\ ~capturing /\ json_str = <<>>

(***************************************************************************)
(* C15.  The '[' line.                                                      *)
(***************************************************************************)
\* C15: while capturing, a line that starts with '[' and is no job message, no
\* '}.' terminator and no access-token line closes the capture: the string
\* parsed is the buffer before the line with nothing appended, the result of
\* the parse is the data returned for the line, and the loop is left not
\* capturing with an empty buffer.
C15_BracketParsesBufferAsIs ==
  (pc = "scan" /\ i >= 1 /\ IsRule5(lines[i], prev.capturing)) =>
    /\ parsed = prev.json_str
    /\ data = parse_json(prev.json_str)
    /\ ~capturing
    /\ json_str = <<>>

\* A '[' line closes a buffer that is a whole object
C15_Witness ==
  /\ Scanned(<<JobLine, ObjLine, BracketLine>>)
  /\ prev.capturing
  /\ prev.json_str = <<"{", "\"", "a", "\"", ":", "1", "}">>
  /\ data = ObjA
  /\ checkout_actions = <<ObjA>>
  /\ ~capturing /\ json_str = <<>>

(***************************************************************************)
(* C16.  The step-telemetry marker.                                         *)
(***************************************************************************)
IsMarkerLine(l) ==
  pattern_search(l, ACTION_MESSAGE_LITERAL) /\ ~pattern_search(l, JOB_MESSAGE_LITERAL)

\* C16: met while not capturing, a line that matches the step-telemetry marker
\* and not the job-message pattern leaves the buffer equal to '{' and the loop
\* capturing, with no data returned and nothing collected; met while capturing,
\* the same line does not start a capture: the buffer is '{' after it only if it
\* was '{' before it.
C16_MarkerStartsCaptureOnlyWhenIdle ==
  /\ (pc = "scan" /\ i >= 1 /\ ~prev.capturing /\ IsMarkerLine(lines[i])) =>
       /\ json_str = <<"{">>
       /\ capturing
       /\ data = JNone
       /\ parsed = prev.parsed
       /\ checkout_actions = prev.checkout_actions
  /\ (pc = "scan" /\ i >= 1 /\ prev.capturing /\ IsMarkerLine(lines[i])) =>
       /\ branch # "action"
       /\ json_str = <<"{">> => prev.json_str = <<"{">>

\* The marker starts a capture, and the marker met again in that capture does not
C16_Witness ==
  /\ Scanned(<<MarkerLine, ContentA, MarkerLine>>)
  /\ ~StateAt(0).capturing
  /\ StateAt(1).capturing /\ StateAt(1).json_str = <<"{">>
  /\ prev.capturing
  /\ json_str # <<"{">>
  /\ checkout_actions = <<>>

(***************************************************************************)
(* C17.  The fragments extract_checkout_actions collects.                   *)
(***************************************************************************)
\* The last line closed a capture whose buffer was JSON
ParsedClose(st) ==
  st.branch \in {"terminator", "bracket"} /\ ~JSONDecodeError(st.parsed)

\* C17: the list collected grows by one fragment, at its end, at every line
\* that closes a capture whose buffer parses, the fragment being the value
\* parsed, and is left as it was by every other line: the fragments that failed
\* to parse are dropped, the ones that parsed are all kept, in file order.
C17_EveryParsedFragmentCollected ==
  (pc = "scan" /\ i >= 1) =>
    checkout_actions =
      IF ParsedClose(ScanState)
        THEN Append(prev.checkout_actions, parse_json(parsed))
        ELSE prev.checkout_actions

(***************************************************************************)
(* C18.  A checkout action whose step the job does not have.                *)
(***************************************************************************)
\* The fragment f has a stepId, and no step of the job context has it as id
UnknownStep(f) == DictGet(f, S_stepId) # JNone /\ ~StepFound(f)

\* C18: a checkout action whose stepId is the id of no step is never tracked
\* and never passed over: no event or flush is in progress for it, the run does
\* not return with it among the actions, and when the run has stopped at it the
\* exception is the IndexError of the empty lookup, no metric was appended for
\* it, and the telemetry is one event then one flush for each action before it,
\* with nothing for it or for the actions after it.
C18_UnknownStepAbortsRun ==
  /\ (pc \in {"track", "flush"}) => ~UnknownStep(todo[k + 1])
  /\ Returned => \A x \in 1..Len(todo) : ~UnknownStep(todo[x])
  /\ (RaisedInLoop /\ UnknownStep(todo[k + 1])) =>
       /\ error = "IndexError"
       /\ Len(metrics) = k
       /\ Calls = EventThenFlush(SubSeq(todo, 1, k))
       /\ \A x \in 1..Len(telemetry) :
            telemetry[x].op = "track_event" =>
              \E y \in 1..k : telemetry[x].name = DictGet(todo[y], S_stepId)

\* The run stopped at the second of three checkouts, after the event of the first
C18_Witness ==
  /\ lines = FileUnknownStep
  /\ RaisedInLoop /\ error = "IndexError"
  /\ Len(todo) = 3 /\ k = 1
  /\ UnknownStep(todo[2])
  /\ StepFound(todo[1]) /\ StepFound(todo[3])
  /\ Calls = <<<<"track_event", JStr(V_s1)>>, <<"flush", JNone>>>>

(***************************************************************************)
(* C19.  The buffer outside a capture.                                      *)
(***************************************************************************)
\* C19: from the start of the loop (not capturing, empty buffer) and after any
\* lines, the buffer is the empty string whenever the loop is not capturing.
C19_IdleBufferEmpty == ~capturing => json_str = <<>>

\* A capture that gathered text was closed, and lines were met outside a capture
C19_Witness ==
  /\ Scanned(<<MarkerLine, ContentA, TermB, ContentA>>)
  /\ StateAt(2).capturing /\ StateAt(2).json_str # <<>>
  /\ ~StateAt(3).capturing /\ StateAt(3).json_str = <<>>
  /\ ~capturing /\ json_str = <<>>

(***************************************************************************)
(* C20.  A file that ends inside a capture.                                 *)
(***************************************************************************)
\* extract_checkout_actions returned from a file it could read
ScanReturned == pc # "scan" /\ file_status = "read" /\ i = Len(lines)

\* C20: when the lines end while the loop is capturing, what
\* extract_checkout_actions returns is what the loop had collected after the
\* last line: the buffer is still pending, it was handed to no parse, and no
\* fragment was added for it.
C20_PendingBufferDiscarded ==
  (ScanReturned /\ capturing) =>
    /\ checkout_actions = StateAt(Len(lines)).checkout_actions
    /\ parsed = StateAt(Len(lines)).parsed
    /\ json_str = StateAt(Len(lines)).json_str
    /\ branch \notin {"terminator", "bracket"}

\* The file ends with the buffer holding a whole object, and nothing is returned
C20_Witness ==
  /\ ScanReturned
  /\ lines = <<JobLine, ObjLine>>
  /\ capturing
  /\ json_str = <<"{", "\"", "a", "\"", ":", "1", "}">>
  /\ parse_json(json_str) = ObjA
  /\ parsed = <<>>
  /\ checkout_actions = <<>>

====
